---- MODULE Spec2Model ----
(***************************************************************************)
(* Model of the BrandFrame AI frontend API client layer:                   *)
(*   - the axios transport (request / response interceptors, error         *)
(*     normaliser handleApiError, extractApiData),                         *)
(*   - the Domain Client ApiService built on it (token lifecycle, auth     *)
(*     operations, thin wrappers for every endpoint),                      *)
(*   - the utility logout flow of api-utils,                               *)
(*   - the earlier fetch-based ApiService of src/lib/api.ts.               *)
(*                                                                         *)
(* JavaScript values are modelled as tagged JSON values so that            *)
(* truthiness, property access and `'data' in x` behave as in the code.    *)
(***************************************************************************)
EXTENDS Integers, Sequences, FiniteSets, Bags, TLC

VARIABLES
    token,      \* localStorage["auth_token"]: NoToken (null) or a string
    pathname,   \* window.location.pathname of the current view
    inflight,   \* bag of Domain Client calls awaiting their response
    sent,       \* the request most recently put on the wire
    last,       \* observation of the most recently settled call
    retry,      \* the run of retryApiCall in progress, or of the last one
    wire,       \* the client calls made so far and the requests they issued
    backend,    \* the presets the backend stores
    clock,      \* the time in ms
    timers,     \* the pending setTimeout timers
    gallery,    \* component state of the Gallery page
    busy        \* the busy flags of the pages and the flows that set them


vars ==
    <<token, pathname, inflight, sent, last, retry, wire, backend,
      clock, timers, gallery, busy>>

-----------------------------------------------------------------------------
(* Bounds *)

MaxInFlight == 1

-----------------------------------------------------------------------------
(* JavaScript / JSON values *)

JUndefined == [t |-> "undefined"]
JNull == [t |-> "null"]
JStr(s) == [t |-> "str", s |-> s]
JNum(n) == [t |-> "num", n |-> n]
\* a File (or Blob) object
JFile(name) == [t |-> "file", name |-> name]
\* a FormData object: its entries in order
JFormData(entries) == [t |-> "formdata", entries |-> entries]
JArr(a) == [t |-> "arr", a |-> a]
\* an object is the sequence of its <<key, value>> pairs in insertion order
JObj(p) == [t |-> "obj", p |-> p]

Nullish(v) == v.t \in {"undefined", "null"}

\* JS truthiness of the values that occur here
Truthy(v) ==
    ~(Nullish(v) \/ (v.t = "str" /\ v.s = "") \/ (v.t = "num" /\ v.n = 0))

\* a || b
JOr(a, b) == IF Truthy(a) THEN a ELSE b

\* 'k' in v, for an object v
HasKey(v, k) == v.t = "obj" /\ \E i \in 1..Len(v.p) : v.p[i][1] = k

\* v.k for a non-nullish v (a missing property, or a property of a
\* primitive, reads as undefined)
Get(v, k) ==
    IF HasKey(v, k)
    THEN v.p[CHOOSE i \in 1..Len(v.p) : v.p[i][1] = k][2]
    ELSE JUndefined

\* v?.[0]
OptFirst(v) ==
    IF v.t = "arr" /\ Len(v.a) > 0 THEN v.a[1] ELSE JUndefined

\* Object.values(v)[0] for an object v
FirstValue(v) ==
    IF v.t = "obj" /\ Len(v.p) > 0 THEN v.p[1][2] ELSE JUndefined

\* the string carried by a string value (String(undefined) = "undefined")
Str(v) ==
    CASE v.t = "str" -> v.s
      [] v.t = "num" -> ToString(v.n)
      [] v.t = "file" -> "[object File]"
      [] v.t = "undefined" -> "undefined"
      [] v.t = "null" -> "null"
      [] OTHER -> "[object Object]"

\* the own enumerable properties copied by { ...v }
Spread(v) == IF v.t = "obj" THEN v.p ELSE << >>

\* p with key k set to v: in place when p has k, appended otherwise
SetKey(p, k, v) ==
    IF \E i \in 1..Len(p) : p[i][1] = k
    THEN [i \in 1..Len(p) |-> IF p[i][1] = k THEN <<k, v>> ELSE p[i]]
    ELSE Append(p, <<k, v>>)

\* typeof v === 'object'
TypeofObject(v) == v.t \in {"obj", "arr", "null", "file"}

RECURSIVE JoinComma(_)
JoinComma(ss) ==
    IF Len(ss) = 0 THEN ""
    ELSE IF Len(ss) = 1 THEN ss[1]
    ELSE ss[1] \o "," \o JoinComma(Tail(ss))

\* JSON.stringify(v) for a string, number, File, null, array or object
RECURSIVE JSONstringify(_)
JSONstringify(v) ==
    CASE v.t = "str" -> "\"" \o v.s \o "\""
      [] v.t = "num" -> ToString(v.n)
      [] v.t = "file" -> "{}"
      [] v.t = "arr" ->
            "[" \o JoinComma([i \in 1..Len(v.a) |->
                                IF v.a[i].t = "undefined" THEN "null"
                                ELSE JSONstringify(v.a[i])]) \o "]"
      [] v.t = "obj" ->
            LET kept == SelectSeq(v.p, LAMBDA kv : kv[2].t # "undefined")
            IN  "{" \o JoinComma([i \in 1..Len(kept) |->
                                    "\"" \o kept[i][1] \o "\":"
                                    \o JSONstringify(kept[i][2])]) \o "}"
      [] OTHER -> "null"

TypeErrorMessage(v, prop) ==
    "Cannot read properties of " \o
    (IF v.t = "null" THEN "null" ELSE "undefined") \o
    " (reading '" \o prop \o "')"

-----------------------------------------------------------------------------
(* Credential store: localStorage key auth_token *)

NoToken == "<null>"
AuthPath == "/auth"

\* localStorage.setItem("auth_token", v) stores String(v)
setToken(v) == Str(v)

\* localStorage.removeItem("auth_token")
clearToken == NoToken

isAuthenticated(tok) == tok # NoToken /\ tok # ""

-----------------------------------------------------------------------------
(* Transport: errors *)

NetworkErrorMessage == "Network error. Please check your connection."

\* the AxiosError produced for a response whose status is not 2xx
AxiosStatusError(status, data) ==
    [isAxiosError |-> TRUE, hasResponse |-> TRUE, status |-> status,
     data |-> data, hasRequest |-> TRUE,
     message |-> "Request failed with status code " \o ToString(status)]

\* the AxiosError produced when no response arrives (connection failure,
\* or the 30 s timeout)
AxiosNoResponseError(timedOut) ==
    [isAxiosError |-> TRUE, hasResponse |-> FALSE, status |-> 0,
     data |-> JUndefined, hasRequest |-> TRUE,
     message |-> IF timedOut THEN "timeout of 30000ms exceeded"
                 ELSE "Network Error"]

\* a plain Error (TypeError) thrown inside a method body
PlainError(msg) ==
    [isAxiosError |-> FALSE, hasResponse |-> FALSE, status |-> 0,
     data |-> JUndefined, hasRequest |-> FALSE, message |-> msg]

\* 422 rewrite of the response interceptor, shared by the variants below
rewrite422(error) ==
    LET data == error.data
        firstError == FirstValue(Get(data, "errors"))
        rewritten ==
            Str(JOr(JOr(OptFirst(firstError), Get(data, "message")),
                    JStr("Validation failed")))
    IN  IF error.hasResponse /\ error.status = 422
           /\ Truthy(Get(data, "errors"))
        THEN [error EXCEPT !.message = rewritten]
        ELSE error

\* variant: the credential is erased inside the "not on /auth" branch
responseInterceptor_EraseOffAuthOnly(error, tok, path) ==
    LET is401 == error.hasResponse /\ error.status = 401
    IN  [error |-> rewrite422(error),
         token |-> IF is401 /\ path # AuthPath THEN clearToken ELSE tok,
         hrefs |-> IF is401 /\ path # AuthPath THEN <<AuthPath>> ELSE <<>>]

\* variant: the redirect is not guarded by the current path
responseInterceptor_AlwaysRedirect(error, tok, path) ==
    LET is401 == error.hasResponse /\ error.status = 401
    IN  [error |-> rewrite422(error),
         token |-> IF is401 THEN clearToken ELSE tok,
         hrefs |-> IF is401 THEN <<AuthPath>> ELSE <<>>]

\* variant: every error status evicts the credential
responseInterceptor_EraseOnAnyError(error, tok, path) ==
    LET is401 == error.hasResponse /\ error.status = 401
    IN  [error |-> rewrite422(error),
         token |-> IF error.hasResponse /\ error.status >= 400
                   THEN clearToken ELSE tok,
         hrefs |-> IF is401 /\ path # AuthPath THEN <<AuthPath>> ELSE <<>>]

\* response interceptor, rejection branch: returns the (possibly rewritten)
\* error, the credential store afterwards and the assignments made to
\* window.location.href
responseInterceptor(error, tok, path) ==
    LET is401 == error.hasResponse /\ error.status = 401
    IN  [error |-> rewrite422(error),
         token |-> IF is401 THEN clearToken ELSE tok,
         hrefs |-> IF is401 /\ path # AuthPath THEN <<AuthPath>> ELSE <<>>]

\* variant: the error's own message is preferred to the body's
handleApiError_OwnMessageFirst(error) ==
    IF error.isAxiosError /\ error.hasResponse /\ Truthy(error.data)
    THEN Str(JOr(JOr(JOr(JStr(error.message),
                         Get(error.data, "message")),
                     Get(error.data, "error")),
                 JStr("An error occurred")))
    ELSE IF error.isAxiosError /\ error.hasRequest
    THEN NetworkErrorMessage
    ELSE error.message

handleApiError(error) ==
    IF error.isAxiosError /\ error.hasResponse /\ Truthy(error.data)
    THEN Str(JOr(JOr(JOr(Get(error.data, "message"),
                         Get(error.data, "error")),
                     JStr(error.message)),
                 JStr("An error occurred")))
    ELSE IF error.isAxiosError /\ error.hasRequest
    THEN NetworkErrorMessage
    ELSE error.message

\* variant: the envelope is not unwrapped
extractApiData_NoUnwrap(response) == response

\* variant: only an envelope that carries a message is unwrapped
extractApiData_NeedsMessage(response) ==
    IF Truthy(response) /\ response.t \in {"obj", "arr"}
       /\ HasKey(response, "data") /\ HasKey(response, "message")
    THEN Get(response, "data")
    ELSE response

extractApiData(response) ==
    IF Truthy(response) /\ response.t \in {"obj", "arr"}
       /\ HasKey(response, "data")
    THEN Get(response, "data")
    ELSE response

-----------------------------------------------------------------------------
(* Domain Client (ApiService on axios) *)

Ops ==
    {"register", "login", "logout", "getUser", "uploadProduct",
     "generateImage", "getImages", "getImage", "deleteImage", "getPresets",
     "getPreset", "createPreset", "updatePreset", "deletePreset",
     "applyPreset", "batchGenerate"}

AuthOps == {"register", "login"}

MultipartOps == {"uploadProduct", "generateImage", "applyPreset", "batchGenerate"}

Paths == {"/auth", "/gallery"}
NoPath == "<none>"

\* a call of the client: a method of ApiService called directly ("api"), or
\* api.logout() called by the utility logout(redirectTo) ("util")
CallKinds ==
    [op : Ops, flow : {"api"}, redirectTo : {NoPath}]
    \cup [op : {"logout"}, flow : {"util"}, redirectTo : Paths]

\* what arrives for a request: nothing (connection failure or timeout), or
\* a response with a status and a parsed body
NoResponse(timedOut) ==
    [received |-> FALSE, timedOut |-> timedOut, status |-> 0, data |-> JUndefined]
Response(status, data) ==
    [received |-> TRUE, timedOut |-> FALSE, status |-> status, data |-> data]

\* axios validateStatus default
validateStatus(status) == status >= 200 /\ status < 300

\* the rejection a failed exchange produces, after the response interceptor
transportFailure(resp, tok, path) ==
    responseInterceptor(
        IF resp.received THEN AxiosStatusError(resp.status, resp.data)
        ELSE AxiosNoResponseError(resp.timedOut),
        tok, path)

\* the try block of a method ends by returning a value or by throwing; the
\* catch clause rethrows new Error(handleApiError(error))
Returned(v) == [threw |-> FALSE, message |-> "", value |-> v]
Thrown(msg) ==
    [threw |-> TRUE, message |-> handleApiError(PlainError(msg)),
     value |-> JUndefined]

\* variant: the record is spread after the aliases, so its own url and
\* prompt win
mapGeneratedImage_KeepAliases(data) ==
    IF Nullish(data)
    THEN Thrown(TypeErrorMessage(data, "generated_image_url"))
    ELSE Returned(JObj(
             << <<"url", IF HasKey(data, "url") THEN Get(data, "url")
                         ELSE Get(data, "generated_image_url")>>,
                <<"prompt", IF HasKey(data, "prompt") THEN Get(data, "prompt")
                            ELSE Get(data, "user_intent")>> >>
             \o SelectSeq(Spread(data),
                          LAMBDA kv : kv[1] \notin {"url", "prompt"})))

mapGeneratedImage(data) ==
    IF Nullish(data)
    THEN Thrown(TypeErrorMessage(data, "generated_image_url"))
    ELSE Returned(JObj(SetKey(SetKey(Spread(data),
                                     "url", Get(data, "generated_image_url")),
                              "prompt", Get(data, "user_intent"))))

\* variant: the structured prompt is passed on as the prompt unserialized
mapPreset_NoStringify(data) ==
    IF Nullish(data)
    THEN Thrown(TypeErrorMessage(data, "structured_prompt"))
    ELSE Returned(JObj(SetKey(Spread(data), "prompt",
                              Get(data, "structured_prompt"))))

mapPreset(data) ==
    IF Nullish(data)
    THEN Thrown(TypeErrorMessage(data, "structured_prompt"))
    ELSE LET sp == Get(data, "structured_prompt")
         IN  Returned(JObj(SetKey(Spread(data), "prompt",
                                  IF TypeofObject(sp)
                                  THEN JStr(JSONstringify(sp)) ELSE sp)))

\* data.map(f), from the results of f on the elements: the first element on
\* which f throws ends the map
collect(rs) ==
    IF \E i \in 1..Len(rs) : rs[i].threw
    THEN rs[CHOOSE i \in 1..Len(rs) :
              rs[i].threw /\ \A j \in 1..(i - 1) : ~rs[j].threw]
    ELSE Returned(JArr([i \in 1..Len(rs) |-> rs[i].value]))

\* variant: data.map(...) without the Array.isArray test
mapImages_NoArrayGuard(data) ==
    IF Nullish(data) THEN Thrown(TypeErrorMessage(data, "map"))
    ELSE IF data.t # "arr" THEN Thrown("data.map is not a function")
    ELSE collect([i \in 1..Len(data.a) |-> mapGeneratedImage(data.a[i])])

\* Array.isArray(data) ? data.map(img => this.mapGeneratedImage(img)) : []
mapImages(data) ==
    IF data.t # "arr" THEN Returned(JArr(<< >>))
    ELSE collect([i \in 1..Len(data.a) |-> mapGeneratedImage(data.a[i])])

\* Array.isArray(data) ? data.map(preset => this.mapPreset(preset)) : []
mapPresets(data) ==
    IF data.t # "arr" THEN Returned(JArr(<< >>))
    ELSE collect([i \in 1..Len(data.a) |-> mapPreset(data.a[i])])

\* generateImage / applyPreset: responseData.data || responseData
unwrapGenerated(responseData) ==
    IF Nullish(responseData)
    THEN Thrown(TypeErrorMessage(responseData, "data"))
    ELSE mapGeneratedImage(JOr(Get(responseData, "data"), responseData))

\* register / login: extractApiData, setToken(data.token), return data
authenticate(data) ==
    IF Nullish(extractApiData(data))
    THEN Thrown(TypeErrorMessage(extractApiData(data), "token"))
    ELSE Returned(extractApiData(data))

\* the statements of a method that follow the await of a 2xx response
methodBody(op, data) ==
    CASE op \in AuthOps -> authenticate(data)
      [] op \in {"logout", "deleteImage", "deletePreset"} -> Returned(JUndefined)
      [] op \in {"generateImage", "applyPreset"} -> unwrapGenerated(data)
      [] op = "getImages" -> mapImages(extractApiData(data))
      [] op = "getImage" -> mapGeneratedImage(extractApiData(data))
      [] op = "getPresets" -> mapPresets(extractApiData(data))
      [] op \in {"getPreset", "createPreset", "updatePreset"} ->
            mapPreset(extractApiData(data))
      [] OTHER -> Returned(extractApiData(data))

\* one method of ApiService from the arrival of the response to settlement
apiCall(op, resp, tok, path) ==
    IF resp.received /\ validateStatus(resp.status)
    THEN LET b == methodBody(op, resp.data)
         IN  [outcome |-> IF b.threw THEN "rejected" ELSE "resolved",
              message |-> b.message,
              returned |-> b.value,
              token |-> IF op = "logout" THEN clearToken
                        ELSE IF op \in AuthOps /\ ~b.threw
                        THEN setToken(Get(b.value, "token"))
                        ELSE tok,
              hrefs |-> << >>]
    ELSE LET f == transportFailure(resp, tok, path)
         IN  [outcome |-> "rejected", message |-> handleApiError(f.error),
              returned |-> JUndefined,
              token |-> IF op = "logout" THEN clearToken ELSE f.token,
              hrefs |-> f.hrefs]

\* variant: no catch clause, the failure of api.logout() propagates
utilLogout_Rethrow(redirectTo, resp, tok, path) ==
    LET r == apiCall("logout", resp, tok, path)
    IN  [r EXCEPT !.hrefs = IF r.outcome = "rejected" THEN @
                            ELSE Append(@, redirectTo)]
        @@ [flowOutcome |-> r.outcome]

\* utility logout(redirectTo) of api-utils around api.logout()
utilLogout(redirectTo, resp, tok, path) ==
    LET r == apiCall("logout", resp, tok, path)
    IN  [r EXCEPT !.token = IF r.outcome = "rejected" THEN clearToken ELSE @,
                  !.hrefs = Append(@, redirectTo)]
        @@ [flowOutcome |-> "resolved"]

\* a call from the arrival of its response to the settlement seen by the
\* UI collaborator
settle(call, resp, tok, path) ==
    IF call.flow = "util"
    THEN utilLogout(call.redirectTo, resp, tok, path)
    ELSE LET r == apiCall(call.op, resp, tok, path)
         IN  r @@ [flowOutcome |-> r.outcome]

-----------------------------------------------------------------------------
(* Transport: outgoing requests *)

NoHeader == "<none>"

Bearer(tok) == "Bearer " \o tok

\* the config a method hands to axiosInstance (instance defaults merged with
\* the per-call headers)
requestConfig(op) ==
    [op |-> op,
     contentType |-> IF op \in MultipartOps THEN "multipart/form-data"
                     ELSE "application/json",
     accept |-> "application/json",
     authorization |-> NoHeader]

\* request interceptor
requestInterceptor(config, tok) ==
    IF tok # NoToken /\ tok # ""
    THEN [config EXCEPT !.authorization = Bearer(tok)]
    ELSE config

\* what createFormData appends for one [key, value] entry of its argument
formEntries(key, value) ==
    IF Nullish(value) THEN << >>
    ELSE IF value.t = "file" THEN << <<key, value>> >>
    ELSE IF value.t = "arr"
    THEN [i \in 1..Len(value.a) |->
            IF value.a[i].t = "file"
            THEN <<key \o "[]", value.a[i]>>
            ELSE <<key \o "[" \o ToString(i - 1) \o "]",
                   JStr(Str(value.a[i]))>>]
    ELSE << <<key, JStr(Str(value))>> >>

\* Object.entries(data).forEach(...) of createFormData, over the entries
RECURSIVE appendEntries(_)
appendEntries(pairs) ==
    IF pairs = << >> THEN << >>
    ELSE formEntries(pairs[1][1], pairs[1][2]) \o appendEntries(Tail(pairs))

\* the FormData built by createFormData(data): its entries in order
createFormData(data) == appendEntries(data.p)

NoBody == [kind |-> "none"]
\* a FormData body
FormBody(entries) == [kind |-> "form", entries |-> entries]
\* an object handed to axios as data: sent as its JSON text, which drops
\* the properties whose value is undefined
JsonBody(v) ==
    [kind |-> "json",
     value |-> JObj(SelectSeq(Spread(v), LAMBDA kv : kv[2].t # "undefined")),
     text |-> JSONstringify(v)]

\* method, url, query parameters and body of a request
Wire(method, url, params, body) ==
    [method |-> method, url |-> url, params |-> params, body |-> body]

\* the FormData applyPreset builds by hand
applyPresetForm(params) ==
    << <<"preset_id", JStr(Str(Get(params, "preset_id")))>>,
       <<"product_image", Get(params, "product_image")>> >>
    \o (IF Truthy(Get(params, "product_description"))
        THEN << <<"product_description",
                  JStr(Str(Get(params, "product_description")))>> >>
        ELSE << >>)

\* what each method of ApiService hands to axiosInstance for its argument
\* (updatePreset takes the pair <<id, preset>>)
apiWire(op, arg) ==
    CASE op = "getUser" -> Wire("GET", "/user", JObj(<< >>), NoBody)
      [] op = "uploadProduct" ->
            Wire("POST", "/upload-product", JObj(<< >>),
                 FormBody(createFormData(JObj(<< <<"product_image", arg>> >>))))
      [] op = "generateImage" ->
            Wire("POST", "/generate", JObj(<< >>),
                 FormBody(createFormData(JObj(<<
                     <<"product_image", Get(arg, "product_image")>>,
                     <<"shot_type", Get(arg, "shot_type")>>,
                     <<"product_description",
                       JOr(Get(arg, "product_description"), JStr(""))>> >>))))
      [] op = "getImages" ->
            Wire("GET", "/generations",
                 IF Truthy(arg) THEN JObj(<< <<"search", arg>> >>)
                 ELSE JObj(<< >>),
                 NoBody)
      [] op = "getImage" ->
            Wire("GET", "/generation/" \o Str(arg), JObj(<< >>), NoBody)
      [] op = "deleteImage" ->
            Wire("DELETE", "/generation/" \o Str(arg), JObj(<< >>), NoBody)
      [] op = "getPresets" -> Wire("GET", "/presets", JObj(<< >>), NoBody)
      [] op = "getPreset" ->
            Wire("GET", "/presets/" \o Str(arg), JObj(<< >>), NoBody)
      [] op = "createPreset" ->
            Wire("POST", "/presets", JObj(<< >>), JsonBody(arg))
      [] op = "updatePreset" ->
            Wire("PUT", "/presets/" \o Str(arg[1]), JObj(<< >>),
                 JsonBody(arg[2]))
      [] op = "deletePreset" ->
            Wire("DELETE", "/presets/" \o Str(arg), JObj(<< >>), NoBody)
      [] op = "applyPreset" ->
            Wire("POST", "/presets/" \o Str(Get(arg, "preset_id")) \o "/apply",
                 JObj(<< >>), FormBody(applyPresetForm(arg)))
      [] op = "batchGenerate" ->
            Wire("POST", "/batch-generate", JObj(<< >>),
                 FormBody(createFormData(JObj(<<
                     <<"preset_id", Get(arg, "preset_id")>>,
                     <<"product_images", Get(arg, "product_images")>>,
                     <<"product_descriptions",
                       JOr(Get(arg, "product_descriptions"),
                           JArr(<< >>))>> >>))))

\* the request a method puts on the wire for its argument: headers from
\* the instance defaults, the per-call headers and the request interceptor
apiRequest(op, arg, tok) ==
    requestInterceptor(requestConfig(op), tok) @@ apiWire(op, arg)

-----------------------------------------------------------------------------
(* Inputs *)

Tokens == {"tokA", "tokB"}

User == JObj(<< <<"id", JStr("1")>>, <<"email", JStr("a@b.c")>> >>)

AuthResponse(tok) == JObj(<< <<"user", User>>, <<"token", JStr(tok)>> >>)

Wrapped(payload) == JObj(<< <<"data", payload>> >>)

\* 2xx bodies of /register and /login
AuthBodies ==
    {AuthResponse(t) : t \in Tokens}
    \cup {Wrapped(AuthResponse(t)) : t \in Tokens}
    \cup {Wrapped(JNull)}

\* 2xx bodies of the other endpoints
OtherBodies == {JObj(<< <<"message", JStr("ok")>> >>)}

SuccessBodies(op) == IF op \in AuthOps THEN AuthBodies ELSE OtherBodies

EmptyBody == JStr("")

ErrorStatuses == {401, 404, 422, 500}

\* field -> message-list mappings of a validation failure
ErrorMappings ==
    {JObj(<< >>),
     JObj(<< <<"email", JArr(<<JStr("msg1"), JStr("msg2")>>)>>,
             <<"name", JArr(<<JStr("msg3")>>)>> >>),
     JObj(<< <<"email", JArr(<< >>)>>, <<"name", JArr(<<JStr("msg3")>>)>> >>)}

Fields(k, vs) == {<< >>} \cup {<< <<k, v>> >> : v \in vs}

\* bodies of non-2xx responses
ErrorBodies ==
    {EmptyBody}
    \cup {JObj(m \o e) : m \in Fields("message", {JStr("top")}),
                         e \in Fields("error", {JStr("err")})}
    \cup {JObj(m \o e) : m \in Fields("message", {JStr("top")}),
                         e \in Fields("errors", ErrorMappings)}

\* everything that can come back for a call of op
Responses(op) ==
    {NoResponse(b) : b \in BOOLEAN}
    \cup {Response(200, d) : d \in SuccessBodies(op)}
    \cup {Response(s, d) : s \in ErrorStatuses, d \in ErrorBodies}

\* the responses drawn while several calls are in flight
FewResponses(op) ==
    {NoResponse(FALSE)}
    \cup {Response(200, d) : d \in SuccessBodies(op)}
    \cup {Response(s, JObj(<< <<"message", JStr("top")>> >>)) : s \in {401, 500}}

-----------------------------------------------------------------------------
(* retryApiCall of api-utils *)

\* s.includes(c) for a needle c of one character
includes(s, c) == \E i \in 1..Len(s) : SubSeq(s, i, i) = c

\* variant: the wait grows by the base delay instead of doubling
waitTime_Linear(delay, attempt) == delay * (attempt + 1)

\* delay * Math.pow(2, attempt)
waitTime(delay, attempt) == delay * 2^attempt

ExhaustedMessage == "API call failed after retries"

\* the wrapped function: a call of the client, () => api.getUser()
retryFn(resp, tok, path) == apiCall("getUser", resp, tok, path)

\* what one invocation of fn did, as retryApiCall sees it
Invocation(resp, r) ==
    [resp |-> resp, threw |-> r.outcome = "rejected", message |-> r.message]

\* variant: lastError keeps the first error observed
catchClause_FirstError(run, inv) ==
    IF includes(inv.message, "4")
    THEN [run EXCEPT !.phase = "done", !.outcome = "rejected",
                     !.message = inv.message]
    ELSE IF run.attempt < run.maxRetries - 1
    THEN [run EXCEPT !.phase = "waiting",
                     !.waits = Append(@, waitTime(run.delay, run.attempt))]
    ELSE [run EXCEPT !.phase = "done", !.attempt = @ + 1,
                     !.outcome = "rejected",
                     !.message = run.invocations[1].message]

\* the body of the catch clause for the error of invocation inv, thrown in
\* the iteration `attempt`: rethrow, wait, or fall through to the next
\* iteration
catchClause(run, inv) ==
    IF includes(inv.message, "4")
    THEN [run EXCEPT !.phase = "done", !.outcome = "rejected",
                     !.message = inv.message]
    ELSE IF run.attempt < run.maxRetries - 1
    THEN [run EXCEPT !.phase = "waiting",
                     !.waits = Append(@, waitTime(run.delay, run.attempt))]
    ELSE [run EXCEPT !.phase = "done", !.attempt = @ + 1,
                     !.outcome = "rejected", !.message = inv.message]

NoRetry ==
    [phase |-> "idle", maxRetries |-> 0, delay |-> 0, attempt |-> 0,
     invocations |-> << >>, waits |-> << >>, outcome |-> "none",
     message |-> "", returned |-> JUndefined]

-----------------------------------------------------------------------------
(* Calls and requests *)

\* variant: a GET for a url requested before is answered from a cache
issue_Cached(log, op, arg, tok) ==
    IF apiWire(op, arg).method = "GET"
       /\ \E i \in 1..Len(log.requests) :
              /\ log.requests[i].url = apiWire(op, arg).url
              /\ log.requests[i].params = apiWire(op, arg).params
    THEN [log EXCEPT !.calls = @ + 1]
    ELSE [calls |-> log.calls + 1,
          requests |-> Append(log.requests, apiRequest(op, arg, tok))]

\* a method of ApiService is invoked: its one axiosInstance call puts one
\* request on the wire
issue(log, op, arg, tok) ==
    [calls |-> log.calls + 1,
     requests |-> Append(log.requests, apiRequest(op, arg, tok))]

\* variant: the structured prompt of the image is not tested
createPresetFromImage_NoGuard(image, name, description) ==
    [threw |-> FALSE, message |-> "",
     preset |-> JObj(<<
         <<"name", name>>,
         <<"description",
           JOr(description,
               JStr("Preset created from image " \o Str(Get(image, "id"))))>>,
         <<"shot_type", Get(image, "shot_type")>>,
         <<"structured_prompt", Get(image, "structured_prompt")>> >>)]

\* createPresetFromImage up to its call of api.createPreset: the domain
\* error it throws, or the preset it passes on
createPresetFromImage(image, name, description) ==
    IF ~Truthy(Get(image, "structured_prompt"))
    THEN [threw |-> TRUE,
          message |-> "Image does not have structured prompt data",
          preset |-> JUndefined]
    ELSE [threw |-> FALSE, message |-> "",
          preset |-> JObj(<<
              <<"name", name>>,
              <<"description",
                JOr(description,
                    JStr("Preset created from image "
                         \o Str(Get(image, "id"))))>>,
              <<"shot_type", Get(image, "shot_type")>>,
              <<"structured_prompt", Get(image, "structured_prompt")>> >>)]

-----------------------------------------------------------------------------
(* The backend, as far as the client depends on it: it stores the presets
   it is sent and answers for a record that does not exist with 404 *)

\* the store after a request and the status and payload answered
backendAnswer(store, op, arg, request) ==
    LET NotFound == JObj(<< <<"message", JStr("Not found")>> >>) IN
    CASE op = "createPreset" ->
            LET record == JObj(<< <<"id", JNum(Len(store.presets) + 1)>> >>
                               \o request.body.value.p)
            IN  [store |-> [store EXCEPT !.presets = Append(@, record)],
                 status |-> 200, payload |-> record]
      [] op = "getPreset" ->
            IF arg.n \in 1..Len(store.presets)
            THEN [store |-> store, status |-> 200,
                  payload |-> store.presets[arg.n]]
            ELSE [store |-> store, status |-> 404, payload |-> NotFound]
      [] op = "deleteImage" ->
            IF arg.n \in store.images
            THEN [store |-> [store EXCEPT !.images = @ \ {arg.n}],
                  status |-> 200,
                  payload |-> JObj(<< <<"message", JStr("deleted")>> >>)]
            ELSE [store |-> store, status |-> 404, payload |-> NotFound]
      [] op \in {"getImages", "getPresets"} ->
            [store |-> store, status |-> 200, payload |-> JArr(<< >>)]
      [] OTHER ->
            [store |-> store, status |-> 200,
             payload |-> JObj(<< <<"message", JStr("ok")>> >>)]

-----------------------------------------------------------------------------
(* Pages *)

\* the Gallery page before its first fetch settles
GalleryMounted ==
    [searchQuery |-> "", images |-> << >>, isLoading |-> TRUE,
     selectedImage |-> JNull, imageDetails |-> JNull,
     isLoadingDetails |-> FALSE, toast |-> "",
     pending |-> {}, issued |-> 0, inputs |-> << >>, calls |-> << >>,
     clicks |-> 0]

\* the wait of the gallery's search timer, in ms
SearchDelay == 300

\* fetchImages(search) up to its await, called at time at because of
\* input number from (0: the mount effect); a call of the usage guide's
\* debounced function sets no busy flag
fetchImages(g, search, by, at, from) ==
    [g EXCEPT !.isLoading = IF by = "handleSearch" THEN TRUE ELSE @,
              !.issued = @ + 1,
              !.pending = @ \cup {[seq |-> g.issued + 1, op |-> "getImages",
                                   arg |-> search, by |-> by,
                                   image |-> JNull]},
              !.calls = Append(@, [at |-> at, query |-> search, from |-> from])]

\* the flows of the pages that set a busy flag around a call of the client
Flows ==
    {"Gallery.fetchImages", "Gallery.handleImageClick", "Presets.fetchPresets",
     "Profile.fetchUserData", "Generate.loadPresets",
     "Generate.handleGenerate", "PresetForm.handleSubmit"}

\* the method(s) a flow awaits first
FlowOps(f) ==
    CASE f = "Gallery.fetchImages" -> {"getImages"}
      [] f = "Gallery.handleImageClick" -> {"getImage"}
      [] f \in {"Presets.fetchPresets", "Generate.loadPresets"} -> {"getPresets"}
      [] f = "Profile.fetchUserData" -> {"getUser"}
      [] f = "Generate.handleGenerate" -> {"applyPreset"}
      [] f = "PresetForm.handleSubmit" -> {"createPreset", "updatePreset"}

\* no flow of a page is in progress: the flags have their useState values
NoFlows ==
    [phase |-> [f \in Flows |-> "idle"],
     flag |-> [f \in Flows |->
                  f \in {"Gallery.fetchImages", "Presets.fetchPresets",
                         "Profile.fetchUserData"}],
     user |-> JNull, loaded |-> JNull,
     settled |-> [flow |-> "none", outcome |-> "none"]]

\* variant: the flag is cleared at the end of the try block only
finally_SuccessOnly(b, f, outcome) ==
    [b EXCEPT !.phase[f] = "idle",
              !.flag[f] = IF outcome = "ok" THEN FALSE ELSE @,
              !.settled = [flow |-> f, outcome |-> outcome]]

\* the catch and finally clauses of flow f
finally(b, f, outcome) ==
    [b EXCEPT !.phase[f] = "idle",
              !.flag[f] = FALSE,
              !.settled = [flow |-> f, outcome |-> outcome]]

-----------------------------------------------------------------------------
(* State machine *)

NoCall == [op |-> "none", flow |-> "api", redirectTo |-> NoPath]

NoRequest == [request |-> requestConfig("none"), tokenAtSend |-> NoToken]

NoEvent ==
    [call |-> NoCall, resp |-> NoResponse(FALSE), tokenBefore |-> NoToken,
     pathBefore |-> NoPath, outcome |-> "none", flowOutcome |-> "none",
     message |-> "", returned |-> JUndefined, hrefs |-> << >>]

Observation(call, resp, r) ==
    [call |-> call, resp |-> resp, tokenBefore |-> token,
     pathBefore |-> pathname, outcome |-> r.outcome,
     flowOutcome |-> r.flowOutcome, message |-> r.message,
     returned |-> r.returned, hrefs |-> r.hrefs]

Init ==
    /\ token \in {NoToken} \cup Tokens
    /\ pathname \in Paths
    /\ inflight = EmptyBag
    /\ sent = NoRequest
    /\ last = NoEvent
    /\ retry = NoRetry
    /\ wire = [calls |-> 0, requests |-> << >>]
    /\ backend = [presets |-> << >>, images |-> {7, 42}]
    /\ clock = 0
    /\ timers = {}
    /\ gallery = GalleryMounted
    /\ busy = NoFlows

\* a UI collaborator calls a method: the request leaves with the headers
\* the request interceptor gives it
Send(call) ==
    /\ BagCardinality(inflight) < MaxInFlight
    /\ inflight' = inflight (+) SetToBag({call})
    /\ sent' = [request |-> requestInterceptor(requestConfig(call.op), token),
                tokenAtSend |-> token]
    /\ UNCHANGED <<token, pathname, last, retry, wire, backend, clock, timers, gallery, busy>>

\* the response (or its absence) reaches the transport and the call settles
Settle(call, resp) ==
    /\ BagIn(call, inflight)
    /\ LET r == settle(call, resp, token, pathname)
       IN  /\ token' = r.token
           /\ last' = Observation(call, resp, r)
    /\ inflight' = inflight (-) SetToBag({call})
    /\ UNCHANGED <<pathname, sent, retry, wire, backend, clock, timers, gallery, busy>>

\* the view changes (router navigation, or the browser following an
\* assignment to window.location.href)
Navigate(p) ==
    /\ p # pathname
    /\ pathname' = p
    /\ UNCHANGED <<token, inflight, sent, last, retry, wire, backend, clock, timers, gallery, busy>>

Next ==
    \/ \E call \in CallKinds : Send(call)
    \/ \E call \in CallKinds : \E resp \in FewResponses(call.op) : Settle(call, resp)
    \/ \E p \in Paths : Navigate(p)

Spec == Init /\ [][Next]_vars

\* one request / response exchange, started in any state of the credential
\* store and of the view and run from the call to its settlement, over
\* every response shape
Exchange(call, resp) ==
    /\ last = NoEvent
    /\ sent' = [request |-> requestInterceptor(requestConfig(call.op), token),
                tokenAtSend |-> token]
    /\ LET r == settle(call, resp, token, pathname)
       IN  /\ token' = r.token
           /\ last' = Observation(call, resp, r)
    /\ UNCHANGED <<pathname, inflight, retry, wire, backend, clock, timers, gallery, busy>>

NextExchange ==
    \E call \in CallKinds : \E resp \in Responses(call.op) : Exchange(call, resp)

SpecExchange == Init /\ [][NextExchange]_vars

-----------------------------------------------------------------------------
(* The fetch-based ApiService of src/lib/api.ts *)

\* headers of ApiService.request(endpoint, options, requiresAuth)
fetchRequestHeaders(op, requiresAuth, tok) ==
    [op |-> op, contentType |-> "application/json",
     accept |-> "application/json",
     authorization |-> IF requiresAuth /\ tok # NoToken /\ tok # ""
                       THEN Bearer(tok) ELSE NoHeader]

\* headers of uploadProduct, which calls fetch itself
fetchUploadHeaders(tok) ==
    [op |-> "uploadProduct", contentType |-> NoHeader,
     accept |-> "application/json",
     authorization |-> IF tok # NoToken /\ tok # "" THEN Bearer(tok)
                       ELSE NoHeader]

\* the request a method of the fetch-based client sends
fetchOutgoing(op, tok) ==
    IF op = "uploadProduct" THEN fetchUploadHeaders(tok)
    ELSE fetchRequestHeaders(op, op \notin AuthOps, tok)

\* response.json(): fails on a body that is not JSON
jsonFails(data) == data = EmptyBody

\* ApiService.request / uploadProduct from the arrival of the response on:
\* the parsed body, or the Error thrown
fetchRequest(op, resp) ==
    IF ~resp.received
    THEN [ok |-> FALSE, message |-> "Failed to fetch", value |-> JUndefined]
    ELSE IF ~validateStatus(resp.status)
    THEN LET fallback == IF op = "uploadProduct" THEN "Upload failed"
                         ELSE "Request failed"
             error == IF jsonFails(resp.data)
                      THEN JObj(<< <<"message", JStr(fallback)>> >>)
                      ELSE resp.data
         IN  [ok |-> FALSE,
              message |-> Str(JOr(Get(error, "message"),
                                  JStr("HTTP error " \o ToString(resp.status)))),
              value |-> JUndefined]
    ELSE IF jsonFails(resp.data)
    THEN [ok |-> FALSE, message |-> "Unexpected end of JSON input",
          value |-> JUndefined]
    ELSE [ok |-> TRUE, message |-> "", value |-> resp.data]

\* one method of the fetch-based ApiService from the arrival of the
\* response to settlement
fetchApiCall(op, resp, tok) ==
    LET r == fetchRequest(op, resp)
        rejected == [outcome |-> "rejected", flowOutcome |-> "rejected",
                     message |-> r.message, returned |-> JUndefined,
                     token |-> tok, hrefs |-> << >>]
        resolved(v, t) == [outcome |-> "resolved", flowOutcome |-> "resolved",
                           message |-> "", returned |-> v, token |-> t,
                           hrefs |-> << >>]
    IN  IF ~r.ok THEN rejected
        ELSE IF op \in AuthOps
        THEN IF Nullish(r.value)
             THEN [rejected EXCEPT !.message = TypeErrorMessage(r.value, "token")]
             ELSE resolved(r.value, setToken(Get(r.value, "token")))
        ELSE IF op = "logout" THEN resolved(JUndefined, clearToken)
        ELSE resolved(r.value, tok)

FetchExchange(op, resp) ==
    /\ last = NoEvent
    /\ sent' = [request |-> fetchOutgoing(op, token), tokenAtSend |-> token]
    /\ LET r == fetchApiCall(op, resp, token)
       IN  /\ token' = r.token
           /\ last' = Observation([op |-> op, flow |-> "api",
                                   redirectTo |-> NoPath], resp, r)
    /\ UNCHANGED <<pathname, inflight, retry, wire, backend, clock, timers, gallery, busy>>

NextFetch ==
    \E op \in Ops : \E resp \in Responses(op) : FetchExchange(op, resp)

SpecFetch == Init /\ [][NextFetch]_vars

-----------------------------------------------------------------------------
(* PresetForm.handleSubmit *)

\* s.trim(), for the blanks that occur here
RECURSIVE trim(_)
trim(s) ==
    IF Len(s) = 0 THEN s
    ELSE IF SubSeq(s, 1, 1) = " " THEN trim(SubSeq(s, 2, Len(s)))
    ELSE IF SubSeq(s, Len(s), Len(s)) = " " THEN trim(SubSeq(s, 1, Len(s) - 1))
    ELSE s

\* Object.values(formData.structured_prompt).some(v => v.trim())
hasPromptFields(formData) ==
    LET sp == Get(formData, "structured_prompt")
    IN  \E i \in 1..Len(sp.p) : trim(Str(sp.p[i][2])) # ""

\* the three validations that precede the request
formIsValid(formData) ==
    /\ trim(Str(Get(formData, "name"))) # ""
    /\ Truthy(Get(formData, "shot_type"))
    /\ hasPromptFields(formData)

\* variant: the update payload is built like the create payload
updateData_WithShotType(formData) ==
    JObj(<< <<"name", Get(formData, "name")>>,
            <<"description", JOr(Get(formData, "description"), JUndefined)>>,
            <<"shot_type", Get(formData, "shot_type")>>,
            <<"structured_prompt", Get(formData, "structured_prompt")>> >>)

updateData(formData) ==
    JObj(<< <<"name", Get(formData, "name")>>,
            <<"description", JOr(Get(formData, "description"), JUndefined)>>,
            <<"structured_prompt", Get(formData, "structured_prompt")>> >>)

createData(formData) ==
    JObj(<< <<"name", Get(formData, "name")>>,
            <<"description", JOr(Get(formData, "description"), JUndefined)>>,
            <<"shot_type", Get(formData, "shot_type")>>,
            <<"structured_prompt", Get(formData, "structured_prompt")>> >>)

\* the client call handleSubmit makes for a valid form: updatePreset when a
\* preset is being edited, createPreset otherwise
handleSubmit(preset, formData) ==
    IF Truthy(preset)
    THEN [op |-> "updatePreset",
          arg |-> <<Get(preset, "id"), updateData(formData)>>]
    ELSE [op |-> "createPreset", arg |-> createData(formData)]

-----------------------------------------------------------------------------
(* Data operations: arguments and response bodies *)

MaxLen == 2
MaxFiles == 2

Files == {JFile("a.png"), JFile("b.png")}

Ids == {JNum(7), JNum(42)}

Descriptions == {JStr(""), JStr("red mug")}

SearchTexts == {JUndefined, JStr(""), JStr("mug")}

StructuredPrompt(style, mood) ==
    JObj(<< <<"style", JStr(style)>>, <<"angle", JStr("")>>,
            <<"lighting", JStr("")>>, <<"composition", JStr("")>>,
            <<"mood", JStr(mood)>> >>)

\* backend records of generated images; the second already carries url
\* and prompt properties of its own
ImageRecords ==
    {JObj(<< <<"id", JNum(42)>>, <<"generated_image_url", JStr("a.png")>>,
             <<"user_intent", JStr("x")>>, <<"shot_type", JStr("hero")>> >>),
     JObj(<< <<"id", JNum(7)>>, <<"url", JStr("stale.png")>>,
             <<"generated_image_url", JStr("b.png")>>,
             <<"prompt", JStr("stale")>>, <<"user_intent", JStr("y")>> >>)}

\* backend records of presets
PresetRecords ==
    {JObj(<< <<"id", JNum(7)>>, <<"name", JStr("Warm")>>,
             <<"description", JNull>>, <<"shot_type", JStr("hero")>>,
             <<"structured_prompt", StructuredPrompt("warm", "")>> >>),
     JObj(<< <<"id", JNum(42)>>, <<"name", JStr("Plain")>>,
             <<"description", JStr("cosy")>>,
             <<"shot_type", JStr("lifestyle")>>,
             <<"structured_prompt", JNull>> >>)}

\* the lists of at most n elements of S, as arrays
ListsOf(S, n) == {JArr(l) : l \in UNION {[1..k -> S] : k \in 0..n}}

ListOps == {"getImages", "getPresets"}
ImageOps == {"getImage", "generateImage", "applyPreset"}
PresetOps == {"getPreset", "createPreset", "updatePreset"}

\* the operations a page calls with an argument of its own
DirectOps == Ops \ (AuthOps \cup {"logout", "createPreset", "updatePreset"})

\* the argument of a call of op
Args(op) ==
    CASE op = "uploadProduct" -> Files
      [] op = "generateImage" ->
            {JObj(<< <<"product_image", f>>, <<"shot_type", JStr("hero")>> >>
                  \o d) :
                f \in Files, d \in Fields("product_description", Descriptions)}
      [] op = "getImages" -> SearchTexts
      [] op \in {"getImage", "deleteImage", "getPreset", "deletePreset"} -> Ids
      [] op = "applyPreset" ->
            {JObj(<< <<"preset_id", id>>, <<"product_image", f>> >> \o d) :
                id \in Ids, f \in Files,
                d \in Fields("product_description", Descriptions)}
      [] op = "batchGenerate" ->
            {JObj(<< <<"preset_id", id>>, <<"product_images", fs>> >> \o d) :
                id \in Ids, fs \in ListsOf(Files, MaxFiles) \ {JArr(<< >>)},
                d \in Fields("product_descriptions",
                             {JArr(<<JStr("red mug")>>)})}
      [] OTHER -> {JUndefined}

\* the states of the preset form at submission
FormStates ==
    {JObj(<< <<"name", JStr(n)>>, <<"description", JStr(d)>>,
             <<"shot_type", JStr(st)>>,
             <<"structured_prompt", StructuredPrompt(style, mood)>> >>) :
        n \in {"", "  ", "Warm 2"}, d \in {"", "cosy"},
        st \in {"", "lifestyle", "hero"}, style \in {"", "cool"},
        mood \in {"", " "}}

\* the payload the backend answers a successful call of op with
Payloads(op) ==
    CASE op = "getImages" ->
            ListsOf(ImageRecords, MaxLen) \cup {JNull, JStr("none")}
      [] op = "getPresets" ->
            ListsOf(PresetRecords, MaxLen) \cup {JNull, JStr("none")}
      [] op \in ImageOps -> ImageRecords \cup {JNull, JStr("")}
      [] op \in PresetOps -> PresetRecords \cup {JNull}
      [] op = "getUser" -> {User, JNull}
      [] OTHER -> {JObj(<< <<"message", JStr("ok")>> >>), JNull}

Envelope(payload) ==
    JObj(<< <<"message", JStr("ok")>>, <<"data", payload>> >>)

GenerateEnvelope(payload) ==
    JObj(<< <<"message", JStr("ok")>>, <<"data", payload>>,
            <<"image_url", JStr("a.png")>> >>)

\* the 2xx bodies of op: each payload bare and in an envelope
DataBodies(op) ==
    Payloads(op)
    \cup {Wrapped(P) : P \in Payloads(op)}
    \cup {Envelope(P) : P \in Payloads(op)}
    \cup (IF op \in {"generateImage", "applyPreset"}
          THEN {GenerateEnvelope(P) : P \in Payloads(op)} ELSE {})

\* everything that can come back for a data operation
DataResponses(op) ==
    {Response(200, d) : d \in DataBodies(op)}
    \cup {NoResponse(FALSE),
          Response(500, JObj(<< <<"message", JStr("top")>> >>))}

-----------------------------------------------------------------------------
(* retryApiCall: one run, from the call to its settlement *)

MaxRetries == 4

Delays == {250, 1000}

HtmlBody == JStr("<html>")

\* what the wrapped call can get back on each invocation
RetryResponses ==
    {NoResponse(FALSE),
     Response(200, User),
     Response(404, JObj(<< <<"message", JStr("Not found")>> >>)),
     Response(404, HtmlBody),
     Response(500, JObj(<< <<"message", JStr("Server Error")>> >>)),
     Response(504, HtmlBody)}

InitRetry == Init /\ token = "tokA" /\ pathname = "/gallery"

\* retryApiCall(fn, maxRetries, delay) is called: lastError = null,
\* attempt = 0 and the loop condition is tested for the first time
retryApiCall(maxRetries, delay) ==
    /\ retry.phase = "idle"
    /\ retry' =
           IF 0 < maxRetries
           THEN [NoRetry EXCEPT !.phase = "calling",
                                !.maxRetries = maxRetries, !.delay = delay]
           ELSE [NoRetry EXCEPT !.phase = "done",
                                !.maxRetries = maxRetries, !.delay = delay,
                                !.outcome = "rejected",
                                !.message = ExhaustedMessage]
    /\ UNCHANGED <<token, pathname, inflight, sent, last, wire, backend,
                   clock, timers, gallery, busy>>

\* one iteration of the loop: fn is invoked and settles
RetryAttempt(resp) ==
    /\ retry.phase = "calling"
    /\ LET r == retryFn(resp, token, pathname)
           inv == Invocation(resp, r)
           run == [retry EXCEPT !.invocations = Append(@, inv)]
       IN  /\ token' = r.token
           /\ retry' = IF inv.threw THEN catchClause(run, inv)
                       ELSE [run EXCEPT !.phase = "done",
                                        !.outcome = "resolved",
                                        !.returned = r.returned]
    /\ UNCHANGED <<pathname, inflight, sent, last, wire, backend, clock, timers, gallery, busy>>

\* the timer of the wait fires: attempt++ and the next iteration starts
RetryWake ==
    /\ retry.phase = "waiting"
    /\ retry' = [retry EXCEPT !.phase = "calling", !.attempt = @ + 1]
    /\ UNCHANGED <<token, pathname, inflight, sent, last, wire, backend,
                   clock, timers, gallery, busy>>

NextRetry ==
    \/ \E m \in 0..MaxRetries : \E d \in Delays : retryApiCall(m, d)
    \/ \E resp \in RetryResponses : RetryAttempt(resp)
    \/ RetryWake

SpecRetry == InitRetry /\ [][NextRetry]_vars

-----------------------------------------------------------------------------
(* Data operations: one call with its argument, from the request to the
   settlement *)

ApiCallOf(op) == [op |-> op, flow |-> "api", redirectTo |-> NoPath]

\* a page calls a method of the client with an argument and the call settles
DataExchange(op, arg, resp) ==
    /\ last = NoEvent
    /\ sent' = [request |-> apiRequest(op, arg, token), tokenAtSend |-> token,
                arg |-> arg, form |-> JUndefined]
    /\ LET r == settle(ApiCallOf(op), resp, token, pathname)
       IN  /\ token' = r.token
           /\ last' = Observation(ApiCallOf(op), resp, r)
    /\ UNCHANGED <<pathname, inflight, retry, wire, backend, clock, timers, gallery, busy>>

\* what the backend answers a submission of the preset form with
FormResponses ==
    {Response(200, P) : P \in PresetRecords}
    \cup {Response(200, Envelope(P)) : P \in PresetRecords}
    \cup {Response(422, JObj(<< <<"message", JStr("top")>> >>))}

\* the preset form is submitted, for a new preset (preset = null) or for the
\* one being edited; forms may be submitted one after the other
PresetFormSubmit(preset, formData, resp) ==
    /\ last = NoEvent \/ last.call.op \in {"createPreset", "updatePreset"}
    /\ formIsValid(formData)
    /\ LET c == handleSubmit(preset, formData)
           r == settle(ApiCallOf(c.op), resp, token, pathname)
       IN  /\ sent' = [request |-> apiRequest(c.op, c.arg, token),
                       tokenAtSend |-> token, arg |-> c.arg,
                       form |-> formData]
           /\ token' = r.token
           /\ last' = Observation(ApiCallOf(c.op), resp, r)
    /\ UNCHANGED <<pathname, inflight, retry, wire, backend, clock, timers, gallery, busy>>

NextData ==
    \/ \E op \in DirectOps : \E arg \in Args(op) :
          \E resp \in DataResponses(op) : DataExchange(op, arg, resp)
    \/ \E preset \in {JNull} \cup PresetRecords : \E formData \in FormStates :
          \E resp \in FormResponses : PresetFormSubmit(preset, formData, resp)

SpecData == Init /\ [][NextData]_vars

-----------------------------------------------------------------------------
(* The fetch-based ApiService: the upload and generation methods with their
   arguments *)

\* the argument of a call of op of the fetch-based client: uploadProduct
\* takes the FormData its caller built, applyPreset the preset id alone
fetchArgs(op) ==
    CASE op = "uploadProduct" ->
            {JFormData(createFormData(JObj(<< <<"product_image", f>> >>))) :
                f \in Files}
      [] op = "applyPreset" -> Ids
      [] OTHER -> Args(op)

\* method, url and body each of these methods hands to fetch
fetchWire(op, arg) ==
    CASE op = "uploadProduct" ->
            Wire("POST", "/upload-product", JObj(<< >>),
                 FormBody(arg.entries))
      [] op = "generateImage" ->
            Wire("POST", "/generate", JObj(<< >>), JsonBody(arg))
      [] op = "applyPreset" ->
            Wire("POST", "/presets/" \o Str(arg) \o "/apply", JObj(<< >>),
                 NoBody)
      [] op = "batchGenerate" ->
            Wire("POST", "/batch-generate", JObj(<< >>), JsonBody(arg))

fetchApiRequest(op, arg, tok) == fetchOutgoing(op, tok) @@ fetchWire(op, arg)

FetchDataExchange(op, arg, resp) ==
    /\ last = NoEvent
    /\ sent' = [request |-> fetchApiRequest(op, arg, token),
                tokenAtSend |-> token, arg |-> arg, form |-> JUndefined]
    /\ LET r == fetchApiCall(op, resp, token)
       IN  /\ token' = r.token
           /\ last' = Observation(ApiCallOf(op), resp, r)
    /\ UNCHANGED <<pathname, inflight, retry, wire, backend, clock, timers, gallery, busy>>

NextFetchData ==
    \E op \in MultipartOps : \E arg \in fetchArgs(op) :
        \E resp \in FewResponses(op) : FetchDataExchange(op, arg, resp)

SpecFetchData == Init /\ [][NextFetchData]_vars

-----------------------------------------------------------------------------
(* Successive calls of the client against the backend *)

MaxCalls == 2

InitCalls == Init /\ token = "tokA" /\ pathname = "/gallery"

\* the arguments of the calls made here
CallArgs(op) ==
    CASE op = "getPreset" -> {JNum(k) : k \in 1..MaxCalls}
      [] op = "createPreset" ->
            {createData(f) : f \in {g \in FormStates :
                formIsValid(g) /\ Get(g, "description") = JStr("")
                /\ Get(g, "shot_type") = JStr("hero")}}
      [] op = "batchGenerate" ->
            {a \in Args(op) : /\ Get(a, "preset_id") = JNum(7)
                              /\ ~HasKey(a, "product_descriptions")}
      [] OTHER -> Args(op)

\* the exchange of one call of op, which ends with the backend's answer
\* bare or in an envelope or fails before the backend is reached: the
\* store afterwards and the response
exchangeWith(op, arg, answer) ==
    LET a == backendAnswer(backend, op, arg, apiRequest(op, arg, token))
    IN  IF answer = "fail"
        THEN [store |-> backend,
              resp |-> Response(500, JObj(<< <<"message", JStr("top")>> >>))]
        ELSE [store |-> a.store,
              resp |-> Response(a.status,
                                IF answer = "envelope" /\ a.status = 200
                                THEN Envelope(a.payload) ELSE a.payload)]

\* a page calls a method of the client; the request is answered and the
\* call settles before the next one is made
ClientCall(op, arg, answer) ==
    /\ wire.calls < MaxCalls
    /\ LET x == exchangeWith(op, arg, answer)
           r == settle(ApiCallOf(op), x.resp, token, pathname)
       IN  /\ wire' = issue(wire, op, arg, token)
           /\ backend' = x.store
           /\ sent' = [request |-> apiRequest(op, arg, token),
                       tokenAtSend |-> token, arg |-> arg, form |-> JUndefined]
           /\ token' = r.token
           /\ last' = Observation(ApiCallOf(op), x.resp, r)
                      @@ [via |-> "api", arg |-> arg,
                          issued |-> Len(wire'.requests) - Len(wire.requests)]
    /\ UNCHANGED <<pathname, inflight, retry, clock, timers, gallery, busy>>

\* a page derives a preset from a generated image
CreatePresetFromImage(image, name, description, answer) ==
    /\ wire.calls < MaxCalls
    /\ LET c == createPresetFromImage(image, name, description)
           x == exchangeWith("createPreset", c.preset, answer)
           r == settle(ApiCallOf("createPreset"), x.resp, token, pathname)
       IN  IF c.threw
           THEN /\ last' = [NoEvent EXCEPT !.call = ApiCallOf("createPreset"),
                                           !.outcome = "rejected",
                                           !.flowOutcome = "rejected",
                                           !.message = c.message,
                                           !.tokenBefore = token,
                                           !.pathBefore = pathname]
                           @@ [via |-> "createPresetFromImage", arg |-> image,
                               issued |-> 0]
                /\ UNCHANGED <<wire, backend, sent, token>>
           ELSE /\ wire' = issue(wire, "createPreset", c.preset, token)
                /\ backend' = x.store
                /\ sent' = [request |->
                                apiRequest("createPreset", c.preset, token),
                            tokenAtSend |-> token, arg |-> c.preset,
                            form |-> JUndefined]
                /\ token' = r.token
                /\ last' = Observation(ApiCallOf("createPreset"), x.resp, r)
                           @@ [via |-> "createPresetFromImage", arg |-> image,
                               issued |-> Len(wire'.requests)
                                          - Len(wire.requests)]
    /\ UNCHANGED <<pathname, inflight, retry, clock, timers, gallery, busy>>

NextCalls ==
    \/ \E op \in {"getImages", "getImage", "deleteImage", "getPresets",
                   "getPreset", "createPreset", "batchGenerate"} :
          \E arg \in CallArgs(op) : \E answer \in {"bare", "envelope", "fail"} :
              ClientCall(op, arg, answer)
    \/ \E image \in
            {JObj(<< <<"id", JNum(42)>>, <<"shot_type", JStr("hero")>> >> \o sp) :
                sp \in Fields("structured_prompt",
                              {JNull, StructuredPrompt("warm", "calm")})} :
        \E description \in {JUndefined, JStr("cosy")} :
          \E answer \in {"bare", "envelope", "fail"} :
              CreatePresetFromImage(image, JStr("Warm 2"), description, answer)

SpecCalls == InitCalls /\ [][NextCalls]_vars

-----------------------------------------------------------------------------
(* Several requests in flight, each with the credential it left with *)

MaxConcurrent == 2

InitConcurrent == Init /\ token = NoToken /\ pathname = "/gallery"

\* the request interceptor reads the credential when the request leaves
SendWith(op) ==
    /\ BagCardinality(inflight) < MaxConcurrent
    /\ inflight' = inflight (+) SetToBag({ApiCallOf(op) @@ [sentWith |-> token]})
    /\ sent' = [request |-> requestInterceptor(requestConfig(op), token),
                tokenAtSend |-> token]
    /\ UNCHANGED <<token, pathname, last, retry, wire, backend, clock, timers, gallery, busy>>

\* the responses arrive in any order
SettleWith(call, resp) ==
    /\ BagIn(call, inflight)
    /\ LET r == settle(ApiCallOf(call.op), resp, token, pathname)
       IN  /\ token' = r.token
           /\ last' = Observation(ApiCallOf(call.op), resp, r)
                      @@ [sentWith |-> call.sentWith]
    /\ inflight' = inflight (-) SetToBag({call})
    /\ UNCHANGED <<pathname, sent, retry, wire, backend, clock, timers, gallery, busy>>

NextConcurrent ==
    \/ \E op \in {"login", "getUser", "logout"} : SendWith(op)
    \/ \E call \in BagToSet(inflight) :
          \E resp \in
                {Response(401, JObj(<< <<"message", JStr("Unauthenticated.")>> >>))}
                \cup IF call.op \in AuthOps
                     THEN {Response(200, AuthResponse(t)) : t \in Tokens}
                     ELSE {Response(200, User)} :
              SettleWith(call, resp)

SpecConcurrent == InitConcurrent /\ [][NextConcurrent]_vars

-----------------------------------------------------------------------------
(* The gallery page: search inputs, timers, and responses in any order *)

MaxInputs == 2

MaxClock == 500

\* what the backend answers for a search
SearchResults(q) ==
    LET A == JObj(<< <<"id", JNum(42)>>, <<"generated_image_url", JStr("a.png")>>,
                     <<"user_intent", JStr("a")>> >>)
        B == JObj(<< <<"id", JNum(7)>>, <<"generated_image_url", JStr("b.png")>>,
                     <<"user_intent", JStr("mug")>> >>)
    IN  JArr(CASE q = JStr("mug") -> <<B>>
               [] q = JStr("a") -> <<A>>
               [] OTHER -> <<A, B>>)

\* useEffect(() => { fetchImages() }, [])
Mount ==
    /\ gallery.issued = 0
    /\ gallery' = fetchImages(gallery, JUndefined, "handleSearch", clock, 0)
    /\ UNCHANGED <<token, pathname, inflight, sent, last, retry, wire, backend,
                   clock, timers, busy>>

\* Gallery.handleSearch: the input's onChange drops the function returned
\* by it, so the timer set here is never cleared
HandleSearch(value) ==
    /\ gallery.issued > 0
    /\ Len(gallery.inputs) + gallery.clicks < MaxInputs
    /\ \A i \in 1..Len(gallery.inputs) : gallery.inputs[i].at # clock
    /\ gallery' = [gallery EXCEPT
           !.searchQuery = value,
           !.inputs = Append(@, [at |-> clock, value |-> value,
                                 by |-> "handleSearch"])]
    /\ timers' = timers \cup {[due |-> clock + SearchDelay, value |-> value,
                                by |-> "handleSearch",
                                from |-> Len(gallery.inputs) + 1]}
    /\ UNCHANGED <<token, pathname, inflight, sent, last, retry, wire, backend,
                   clock, busy>>

\* the function returned by debounce(func, 300) of the usage guide:
\* if (timeout) clearTimeout(timeout); timeout = setTimeout(...)
DebouncedSearch(value) ==
    /\ gallery.issued > 0
    /\ Len(gallery.inputs) + gallery.clicks < MaxInputs
    /\ \A i \in 1..Len(gallery.inputs) : gallery.inputs[i].at # clock
    /\ gallery' = [gallery EXCEPT
           !.inputs = Append(@, [at |-> clock, value |-> value,
                                 by |-> "debounce"])]
    /\ timers' = {t \in timers : t.by # "debounce"}
                  \cup {[due |-> clock + SearchDelay, value |-> value,
                         by |-> "debounce",
                         from |-> Len(gallery.inputs) + 1]}
    /\ UNCHANGED <<token, pathname, inflight, sent, last, retry, wire, backend,
                   clock, busy>>

\* a timer set by setTimeout expires and its callback calls getImages
TimerFires(t) ==
    /\ t \in timers
    /\ t.due <= clock
    /\ timers' = timers \ {t}
    /\ gallery' = fetchImages(gallery, JStr(t.value), t.by, clock, t.from)
    /\ UNCHANGED <<token, pathname, inflight, sent, last, retry, wire, backend,
                   clock, busy>>

\* time passes; an expired timer runs before time passes on
Tick ==
    /\ clock < MaxClock
    /\ \A t \in timers : t.due > clock
    /\ clock' = clock + 100
    /\ UNCHANGED <<token, pathname, inflight, sent, last, retry, wire, backend,
                   timers, gallery, busy>>

\* the rest of fetchImages (or of the guide's debounced function) once its
\* getImages call settles
FetchSettles(p, resp) ==
    /\ p \in gallery.pending
    /\ p.op = "getImages"
    /\ LET r == settle(ApiCallOf("getImages"), resp, token, pathname)
       IN  /\ token' = r.token
           /\ gallery' = [gallery EXCEPT
                  !.pending = @ \ {p},
                  !.images = IF r.outcome = "resolved" THEN r.returned.a ELSE @,
                  !.toast = IF r.outcome = "rejected" /\ p.by = "handleSearch"
                            THEN "Failed to load gallery" ELSE @,
                  !.isLoading = IF p.by = "handleSearch" THEN FALSE ELSE @]
    /\ UNCHANGED <<pathname, inflight, sent, last, retry, wire, backend,
                   clock, timers, busy>>

\* Gallery.handleImageClick up to its await
HandleImageClick(image) ==
    /\ Len(gallery.inputs) + gallery.clicks < MaxInputs
    /\ \E i \in 1..Len(gallery.images) : gallery.images[i] = image
    /\ gallery' = [gallery EXCEPT
           !.selectedImage = image,
           !.isLoadingDetails = TRUE,
           !.issued = @ + 1,
           !.clicks = @ + 1,
           !.pending = @ \cup {[seq |-> gallery.issued + 1, op |-> "getImage",
                                arg |-> Get(image, "id"), by |-> "click",
                                image |-> image]}]
    /\ UNCHANGED <<token, pathname, inflight, sent, last, retry, wire, backend,
                   clock, timers, busy>>

\* the rest of Gallery.handleImageClick once its getImage call settles
DetailsSettle(p, resp) ==
    /\ p \in gallery.pending
    /\ p.op = "getImage"
    /\ LET r == settle(ApiCallOf("getImage"), resp, token, pathname)
       IN  /\ token' = r.token
           /\ gallery' = [gallery EXCEPT
                  !.pending = @ \ {p},
                  !.imageDetails = IF r.outcome = "resolved" THEN r.returned
                                   ELSE p.image,
                  !.toast = IF r.outcome = "rejected"
                            THEN "Failed to load image details" ELSE @,
                  !.isLoadingDetails = FALSE]
    /\ UNCHANGED <<pathname, inflight, sent, last, retry, wire, backend,
                   clock, timers, busy>>

NextGallery ==
    \/ Mount
    \/ \E value \in {"a", "mug"} : HandleSearch(value)
    \/ \E value \in {"a", "mug"} : DebouncedSearch(value)
    \/ \E t \in timers : TimerFires(t)
    \/ Tick
    \/ \E p \in gallery.pending :
          \E resp \in {Response(200, SearchResults(p.arg)),
                        Response(500, JObj(<< <<"message", JStr("top")>> >>))} :
              FetchSettles(p, resp)
    \/ \E i \in 1..Len(gallery.images) : HandleImageClick(gallery.images[i])
    \/ \E p \in gallery.pending :
          \E resp \in {Response(200, p.image), NoResponse(TRUE)} :
              DetailsSettle(p, resp)

SpecGallery == InitCalls /\ [][NextGallery]_vars

-----------------------------------------------------------------------------
(* The busy flags of the pages *)

MaxFlows == 1

\* the answers the call of a flow may get
FlowResponses(op) ==
    {Response(200, IF op = "getUser" THEN User
                   ELSE IF op \in {"getImages", "getPresets"} THEN JArr(<< >>)
                   ELSE JObj(<< <<"id", JNum(7)>> >>)),
     Response(200, JNull), NoResponse(TRUE)}
    \cup {Response(st, JObj(<< <<"message", JStr("top")>> >>)) :
             st \in {401, 500}}

\* a flow sets its flag and calls the client
StartFlow(f) ==
    /\ busy.phase[f] = "idle"
    /\ Cardinality({g \in Flows : busy.phase[g] # "idle"}) < MaxFlows
    /\ busy' = [busy EXCEPT !.phase[f] = "awaiting",
                            !.flag[f] = TRUE,
                            !.settled = [flow |-> "none", outcome |-> "none"]]
    /\ UNCHANGED <<token, pathname, inflight, sent, last, retry, wire, backend,
                   clock, timers, gallery>>

\* the awaited call settles; Profile.fetchUserData goes on to its stats
SettleFlow(f, op, resp) ==
    /\ busy.phase[f] = "awaiting"
    /\ LET r == settle(ApiCallOf(op), resp, token, pathname)
       IN  /\ token' = r.token
           /\ busy' = IF f = "Profile.fetchUserData" /\ r.outcome = "resolved"
                      THEN [busy EXCEPT !.user = r.returned,
                                        !.loaded = r.returned,
                                        !.phase[f] = "stats"]
                      ELSE finally(busy, f, IF r.outcome = "resolved"
                                            THEN "ok" ELSE "failed")
    /\ UNCHANGED <<pathname, inflight, sent, last, retry, wire, backend,
                   clock, timers, gallery>>

\* Promise.all([getImages(), getPresets()]) of Profile.fetchUserData settles
SettleStats(respImages, respPresets) ==
    /\ busy.phase["Profile.fetchUserData"] = "stats"
    /\ LET r1 == settle(ApiCallOf("getImages"), respImages, token, pathname)
           r2 == settle(ApiCallOf("getPresets"), respPresets, r1.token, pathname)
       IN  /\ token' = r2.token
           /\ busy' = finally(busy, "Profile.fetchUserData",
                              IF r1.outcome = "resolved" /\ r2.outcome = "resolved"
                              THEN "ok" ELSE "statsFailed")
    /\ UNCHANGED <<pathname, inflight, sent, last, retry, wire, backend,
                   clock, timers, gallery>>

NextBusy ==
    \/ \E f \in Flows : StartFlow(f)
    \/ \E f \in Flows : \E op \in FlowOps(f) : \E resp \in FlowResponses(op) :
          SettleFlow(f, op, resp)
    \/ \E ri \in FlowResponses("getImages") :
          \E rp \in FlowResponses("getPresets") : SettleStats(ri, rp)

\* every call of the client settles: answered, or timed out by axios
FairBusy ==
    /\ InitCalls /\ [][NextBusy]_vars
    /\ \A f \in Flows :
           WF_vars(\E op \in FlowOps(f) : \E resp \in FlowResponses(op) :
                       SettleFlow(f, op, resp))
    /\ WF_vars(\E ri \in FlowResponses("getImages") :
                   \E rp \in FlowResponses("getPresets") : SettleStats(ri, rp))

-----------------------------------------------------------------------------
(* Properties *)

Settled == last.outcome # "none"

GotStatus(s) == last.resp.received /\ last.resp.status = s

\* the redirect the transport owes for a 401 seen on the view pathBefore
TransportRedirect == IF last.pathBefore # AuthPath THEN <<AuthPath>> ELSE << >>

\* C1: once the transport has handled a response with status 401, for any
\* operation and any stored credential, the credential store is empty,
\* whatever the current view is.
C1_CredentialEmptyAfter401 == GotStatus(401) => token = NoToken

C1_Witness ==
    /\ GotStatus(401)
    /\ last.tokenBefore \in Tokens
    /\ last.pathBefore = AuthPath
    /\ token = NoToken

\* C2 as stated: a 401 yields exactly one redirect to /auth off the auth
\* view and none on it, for every caller, the logout flow included.
C2_OneRedirectForEveryCaller == GotStatus(401) => last.hrefs = TransportRedirect

\* C2 amended: for a 401 the transport assigns the location /auth exactly
\* once off the auth view and never on it; that is the only assignment for
\* a direct call of a client method, and the utility logout(redirectTo)
\* adds its own assignment of redirectTo after it.
C2_TransportRedirectsOnce ==
    GotStatus(401) =>
        last.hrefs = TransportRedirect
                     \o (IF last.call.flow = "util"
                         THEN <<last.call.redirectTo>> ELSE << >>)

C2_Witness ==
    /\ GotStatus(401)
    /\ last.call.flow = "util"
    /\ last.pathBefore # AuthPath
    /\ last.hrefs = <<AuthPath, last.call.redirectTo>>

BackendFailed == ~last.resp.received \/ ~validateStatus(last.resp.status)

\* C3: when api.logout() settles the stored credential is empty, whether
\* the backend call succeeded or failed, and a failed backend call makes
\* logout() reject with an error.
C3_LogoutAlwaysErases ==
    (Settled /\ last.call.op = "logout") =>
        /\ token = NoToken
        /\ BackendFailed => (last.outcome = "rejected" /\ last.message # "")

\* C4: after register() or login() resolves, the stored credential is the
\* token of the backend response, bare {user, token} or wrapped in
\* {data: {user, token}}, and the value returned carries that token and user.
C4_LoginStoresResponseToken ==
    \A t \in Tokens :
        (/\ last.call.op \in AuthOps
         /\ last.outcome = "resolved"
         /\ last.resp.data \in {AuthResponse(t), Wrapped(AuthResponse(t))})
        => /\ token = t
           /\ Get(last.returned, "token") = JStr(t)
           /\ Get(last.returned, "user") = User

C4_Witness ==
    /\ last.call.op = "login"
    /\ last.outcome = "resolved"
    /\ last.resp.data = Wrapped(AuthResponse("tokB"))
    /\ last.tokenBefore = "tokA"
    /\ token = "tokB"

\* C5: every outgoing request carries Authorization: Bearer <t>, t the
\* credential stored when the request is sent, if and only if a credential
\* is stored then; with empty storage it carries no Authorization header.
C5_BearerIffStored ==
    sent # NoRequest =>
        sent.request.authorization =
            (IF sent.tokenAtSend # NoToken THEN Bearer(sent.tokenAtSend)
             ELSE NoHeader)

\* C6: the stored credential changes only by a successful login or register
\* (which writes the response's token over whatever was stored), by logout
\* and by a 401 (which erase it); every other operation and outcome leaves
\* it unchanged.
C6_CredentialFrame ==
    Settled =>
        /\ (last.call.op \in AuthOps /\ last.outcome = "resolved")
               => token = Str(Get(last.returned, "token"))
        /\ token # last.tokenBefore =>
               \/ last.call.op \in AuthOps /\ last.outcome = "resolved"
               \/ last.call.op = "logout" /\ token = NoToken
               \/ GotStatus(401) /\ token = NoToken

C6_Witness ==
    /\ last.call.op \in AuthOps
    /\ GotStatus(500)
    /\ last.outcome = "rejected"
    /\ last.tokenBefore \in Tokens
    /\ token = last.tokenBefore

\* the first message of the first field of the body's errors mapping
FirstFieldMessage == OptFirst(FirstValue(Get(last.resp.data, "errors")))

TopLevelMessage == Get(last.resp.data, "message")

\* C7: for a 422 whose body carries a non-empty errors mapping, the error
\* thrown to the caller has the first message of the first field as its
\* message, with or without a top-level message in the body.
C7_FirstFieldMessageSurfaced ==
    (GotStatus(422) /\ Truthy(FirstFieldMessage))
        => (last.outcome = "rejected" /\ last.message = Str(FirstFieldMessage))

\* C8: for a 422 whose errors mapping is absent or empty and whose body
\* carries a top-level message, the error thrown to the caller has that
\* top-level message.
C8_TopLevelMessageFallback ==
    (/\ GotStatus(422)
     /\ Get(last.resp.data, "errors") \in {JUndefined, JObj(<< >>)}
     /\ Truthy(TopLevelMessage))
        => (last.outcome = "rejected" /\ last.message = Str(TopLevelMessage))

C8_Witness ==
    /\ GotStatus(422)
    /\ Get(last.resp.data, "errors") = JObj(<< >>)
    /\ last.message = "top"

\* a message that encodes the HTTP status
StatusCoded(msg, status) ==
    msg \in {"Request failed with status code " \o ToString(status),
             "HTTP error " \o ToString(status)}

\* C9: for a non-2xx status other than 401 and 422 the error thrown carries
\* the body's message when it has one, and a status-coded message otherwise
\* (body empty or without a message).
C9_MessageOrStatusCode ==
    (/\ last.resp.received
     /\ ~validateStatus(last.resp.status)
     /\ last.resp.status \notin {401, 422})
        => /\ last.outcome = "rejected"
           /\ IF Truthy(TopLevelMessage)
              THEN last.message = Str(TopLevelMessage)
              ELSE StatusCoded(last.message, last.resp.status)

\* C10: the network-error message is surfaced exactly when no response was
\* received; a call the server answered, with any status and any body, the
\* empty one included, never surfaces it.
C10_NetworkErrorIffNoResponse ==
    Settled => ((last.message = NetworkErrorMessage) <=> ~last.resp.received)

\* the body of the response is an envelope around a payload
InEnvelope == HasKey(last.resp.data, "data")

\* the payload the backend answered with, bare or in its envelope
BackendPayload ==
    IF InEnvelope THEN Get(last.resp.data, "data") ELSE last.resp.data

\* the settled call ended as the same call does when the backend answers
\* 200 with the bare payload P
SameAsBare(P) ==
    LET b == apiCall(last.call.op, Response(200, P), last.tokenBefore,
                     last.pathBefore)
    IN  /\ last.outcome = b.outcome
        /\ last.message = b.message
        /\ last.returned = b.returned

\* C11: for every list L of records, getImages and getPresets return for
\* the envelope {data: L}, with or without a message field, the normalized
\* list they return for the bare list L: one element for each record of L.
C11_ListSameBareOrEnveloped ==
    (/\ GotStatus(200)
     /\ last.call.op \in ListOps
     /\ InEnvelope
     /\ BackendPayload.t = "arr")
        => /\ last.outcome = "resolved"
           /\ last.returned.t = "arr"
           /\ Len(last.returned.a) = Len(BackendPayload.a)
           /\ SameAsBare(BackendPayload)

C11_Witness ==
    /\ GotStatus(200)
    /\ last.call.op = "getPresets"
    /\ last.resp.data \in {Wrapped(L) : L \in ListsOf(PresetRecords, MaxLen)}
    /\ last.outcome = "resolved"
    /\ Len(last.returned.a) = 2

\* a successful response that holds no results: an empty bare list, or an
\* envelope whose data is an empty list, null or not a list
NoResults ==
    \/ last.resp.data = JArr(<< >>)
    \/ InEnvelope /\ BackendPayload.t # "arr"
    \/ InEnvelope /\ BackendPayload = JArr(<< >>)

\* C12: getImages, with or without search text, resolves to the empty
\* sequence for a successful response that holds no results, and never
\* throws for it.
C12_EmptyResultIsEmptyList ==
    (GotStatus(200) /\ last.call.op = "getImages" /\ NoResults)
        => (last.outcome = "resolved" /\ last.returned = JArr(<< >>))

C12_Witness ==
    /\ GotStatus(200)
    /\ last.call.op = "getImages"
    /\ sent.request.params = JObj(<< <<"search", JStr("mug")>> >>)
    /\ last.resp.data = Envelope(JNull)
    /\ last.outcome = "resolved"
    /\ last.returned = JArr(<< >>)

\* r is the backend record b with the aliases url and prompt derived from
\* the canonical fields, every other field of b unchanged
Aliased(r, b) ==
    /\ r.t = "obj"
    /\ Get(r, "url") = Get(b, "generated_image_url")
    /\ Get(r, "prompt") = Get(b, "user_intent")
    /\ Get(r, "url") = Get(r, "generated_image_url")
    /\ Get(r, "prompt") = Get(r, "user_intent")
    /\ \A i \in 1..Len(b.p) :
           b.p[i][1] \notin {"url", "prompt"} => Get(r, b.p[i][1]) = b.p[i][2]
    /\ {r.p[i][1] : i \in 1..Len(r.p)}
           = {b.p[i][1] : i \in 1..Len(b.p)} \cup {"url", "prompt"}

\* C13: every GeneratedImage returned by getImage, getImages, generateImage
\* and applyPreset has url = generated_image_url and prompt = user_intent,
\* with the canonical fields of the backend record unchanged, also when the
\* backend record carries url or prompt fields of its own.
C13_AliasesMirrorCanonical ==
    GotStatus(200) =>
        /\ (last.call.op \in ImageOps /\ BackendPayload.t = "obj")
               => /\ last.outcome = "resolved"
                  /\ Aliased(last.returned, BackendPayload)
        /\ (last.call.op = "getImages" /\ BackendPayload.t = "arr")
               => /\ last.outcome = "resolved"
                  /\ Len(last.returned.a) = Len(BackendPayload.a)
                  /\ \A i \in 1..Len(BackendPayload.a) :
                         Aliased(last.returned.a[i], BackendPayload.a[i])

C13_Witness ==
    /\ GotStatus(200)
    /\ last.call.op = "getImage"
    /\ InEnvelope
    /\ Get(BackendPayload, "url") = JStr("stale.png")
    /\ Get(last.returned, "generated_image_url") = JStr("b.png")
    /\ Get(last.returned, "url") = JStr("b.png")
    /\ Get(last.returned, "prompt") = JStr("y")

\* C14: for every operation and payload P the result for the envelope
\* {message?, data: P} (for generateImage and applyPreset also
\* {message, data: P, image_url}) is the result for the bare P, also when P
\* is null or another falsy value.
C14_EnvelopeSameAsBare ==
    (GotStatus(200) /\ InEnvelope) => SameAsBare(BackendPayload)

\* a request of one of the calls that take an argument has been sent
SentBy(ops) == sent # NoRequest /\ sent.request.op \in ops

\* the preset id a call of applyPreset was given
PresetIdOf(arg) == IF arg.t = "num" THEN arg ELSE Get(arg, "preset_id")

\* the multipart body carries the entry <<name, value>>
HasEntry(name, value) ==
    \E i \in 1..Len(sent.request.body.entries) :
        sent.request.body.entries[i] = <<name, value>>

\* C15: every request issued by applyPreset targets /presets/{preset_id}/apply
\* and carries in its multipart body one preset_id field with the id of the
\* path, together with the product_image file.
C15_ApplyPresetBodyCarriesPresetId ==
    SentBy({"applyPreset"}) =>
        /\ sent.request.method = "POST"
        /\ sent.request.url =
               "/presets/" \o ToString(PresetIdOf(sent.arg).n) \o "/apply"
        /\ sent.request.body.kind = "form"
        /\ HasEntry("preset_id", JStr(ToString(PresetIdOf(sent.arg).n)))
        /\ Cardinality({i \in 1..Len(sent.request.body.entries) :
                           sent.request.body.entries[i][1] = "preset_id"}) = 1
        /\ HasEntry("product_image", Get(sent.arg, "product_image"))
        /\ Get(sent.arg, "product_image").t = "file"

\* the files a call was given to send
FilesOf(arg) ==
    CASE arg.t = "file" -> {arg}
      [] arg.t = "formdata" ->
            {arg.entries[i][2] : i \in {j \in 1..Len(arg.entries) :
                                           arg.entries[j][2].t = "file"}}
      [] arg.t = "obj" /\ HasKey(arg, "product_images") ->
            {Get(arg, "product_images").a[i] :
                i \in 1..Len(Get(arg, "product_images").a)}
      [] arg.t = "obj" /\ HasKey(arg, "product_image") ->
            {Get(arg, "product_image")}
      [] OTHER -> {}

\* C16: every request issued by uploadProduct, generateImage, applyPreset
\* and batchGenerate has a multipart form-data body that contains the files
\* of the call, and its Content-Type header is never application/json.
C16_FilesGoMultipart ==
    SentBy(MultipartOps) =>
        /\ sent.request.contentType # "application/json"
        /\ sent.request.body.kind = "form"
        /\ \A f \in FilesOf(sent.arg) :
               \E i \in 1..Len(sent.request.body.entries) :
                   sent.request.body.entries[i][2] = f
        /\ \E i \in 1..Len(sent.request.body.entries) :
               sent.request.body.entries[i][2].t = "file"

\* C17: no request issued by updatePreset carries a shot_type field: for
\* every preset and every state of the preset form, the PUT /presets/{id}
\* payload holds only name, description and structured_prompt.
C17_UpdateOmitsShotType ==
    SentBy({"updatePreset"}) =>
        /\ sent.request.method = "PUT"
        /\ sent.request.url = "/presets/" \o ToString(sent.arg[1].n)
        /\ sent.request.body.kind = "json"
        /\ ~HasKey(sent.request.body.value, "shot_type")
        /\ {sent.request.body.value.p[i][1] :
               i \in 1..Len(sent.request.body.value.p)}
               \subseteq {"name", "description", "structured_prompt"}
        /\ Get(sent.request.body.value, "name") = Get(sent.form, "name")
        /\ Get(sent.request.body.value, "structured_prompt")
               = Get(sent.form, "structured_prompt")

C17_Witness ==
    /\ SentBy({"updatePreset"})
    /\ sent.request.url = "/presets/7"
    /\ Get(sent.form, "shot_type") = JStr("lifestyle")
    /\ Get(sent.form, "description") = JStr("")
    /\ sent.request.body.text =
           "{\"name\":\"Warm 2\",\"structured_prompt\":{\"style\":\"cool\","
           \o "\"angle\":\"\",\"lighting\":\"\",\"composition\":\"\","
           \o "\"mood\":\"\"}}"
    /\ last.outcome = "resolved"

\* invocation i of the wrapped function failed with a 4xx status
ClientFailure(i) ==
    /\ retry.invocations[i].resp.received
    /\ retry.invocations[i].resp.status >= 400
    /\ retry.invocations[i].resp.status < 500

\* invocation i failed with a 5xx status or without any response
ServerOrNetworkFailure(i) ==
    \/ ~retry.invocations[i].resp.received
    \/ retry.invocations[i].resp.status >= 500

\* C18: with maxRetries >= 1, an invocation that fails with a client-side
\* 4xx error is never retried: it is the last invocation, no wait follows
\* it and retryApiCall rejects with that error; so a function that always
\* fails that way is invoked exactly once, with no wait.
C18_ClientErrorNeverRetried ==
    retry.maxRetries >= 1 =>
        \A i \in 1..Len(retry.invocations) :
            ClientFailure(i) =>
                /\ i = Len(retry.invocations)
                /\ Len(retry.waits) = i - 1
                /\ retry.phase = "done"
                /\ retry.outcome = "rejected"
                /\ retry.message = retry.invocations[i].message

\* C19: when retryApiCall rejects after the function failed every time with
\* an error that is not a 4xx client failure (a 5xx status such as 500 or
\* 504, or no response), the function was invoked exactly maxRetries times.
C19_ServerErrorUsesEveryAttempt ==
    (/\ retry.phase = "done"
     /\ retry.outcome = "rejected"
     /\ \A i \in 1..Len(retry.invocations) : ServerOrNetworkFailure(i))
        => Len(retry.invocations) = retry.maxRetries

\* C20: the wait before the k-th retry is delay * 2^(k-1): the first wait
\* is delay and each one is double the one before; there are at most
\* maxRetries - 1 waits, and none after the final failed attempt or after a
\* success.
C20_WaitsDouble ==
    /\ \A k \in 1..Len(retry.waits) :
           retry.waits[k] = retry.delay * 2^(k - 1)
    /\ \A k \in 2..Len(retry.waits) :
           retry.waits[k] = 2 * retry.waits[k - 1]
    /\ retry.maxRetries >= 1 => Len(retry.waits) <= retry.maxRetries - 1
    /\ retry.phase = "done" =>
           Len(retry.waits) =
               (IF retry.invocations = << >> THEN 0
                ELSE Len(retry.invocations) - 1)
    /\ retry.phase \in {"calling", "waiting"} =>
           Len(retry.waits) = Len(retry.invocations)

C20_Witness ==
    /\ retry.phase = "done"
    /\ retry.outcome = "rejected"
    /\ retry.maxRetries = 4
    /\ Len(retry.invocations) = 4
    /\ retry.waits = <<250, 500, 1000>>

\* C21: when retryApiCall rejects after at least one invocation, it rejects
\* with the error of the last invocation; when an invocation succeeds it
\* resolves with that invocation's result, every earlier invocation having
\* failed, and the function is not invoked again.
C21_LastErrorOrFirstSuccess ==
    (retry.phase = "done" /\ retry.invocations # << >>) =>
        LET n == Len(retry.invocations)
        IN  /\ \A i \in 1..(n - 1) : retry.invocations[i].threw
            /\ retry.outcome = "rejected" =>
                   /\ retry.invocations[n].threw
                   /\ retry.message = retry.invocations[n].message
            /\ retry.outcome = "resolved" =>
                   /\ ~retry.invocations[n].threw
                   /\ retry.returned = retry.invocations[n].resp.data

C21_Witness ==
    /\ retry.phase = "done"
    /\ retry.outcome = "rejected"
    /\ Len(retry.invocations) = 3
    /\ retry.invocations[1].message = "Server Error"
    /\ retry.invocations[3].message = NetworkErrorMessage
    /\ retry.message = NetworkErrorMessage

\* a call or a derivation of SpecCalls has been observed
Called == "via" \in DOMAIN last

\* C22: deleteImage of a record that is already absent, which the backend
\* answers with 404, completes successfully and the record is absent
\* afterwards.
C22_DeleteAbsentSucceeds ==
    (Called /\ last.call.op = "deleteImage" /\ GotStatus(404)) =>
        /\ last.outcome = "resolved"
        /\ last.arg.n \notin backend.images

\* the entries named name of the multipart body of request q
EntriesNamed(q, name) ==
    {i \in 1..Len(q.body.entries) : q.body.entries[i][1] = name}

\* C23: every invocation of a method of the client issues exactly one
\* request, on success and on failure, a repeated query included; the one
\* request of batchGenerate carries one product_images[] field per file.
C23_OneRequestPerCall ==
    /\ Len(wire.requests) = wire.calls
    /\ (Called /\ last.via = "api") =>
           /\ last.issued = 1
           /\ wire.requests[Len(wire.requests)] = sent.request
           /\ last.call.op = "batchGenerate" =>
                  LET files == Get(last.arg, "product_images").a
                      q == sent.request
                      at == EntriesNamed(q, "product_images[]")
                  IN  /\ q.body.kind = "form"
                      /\ Cardinality(at) = Len(files)
                      /\ \A i \in 1..Len(files) :
                             \E j \in at :
                                 /\ q.body.entries[j][2] = files[i]
                                 /\ Cardinality({k \in at : k < j}) = i - 1

C23_Witness ==
    /\ Called /\ last.via = "api"
    /\ wire.calls = 2
    /\ wire.requests[1].url = wire.requests[2].url
    /\ wire.requests[1].method = "GET"
    /\ wire.requests[1].params = wire.requests[2].params
    /\ last.outcome = "rejected"

\* C24: createPreset with a structured prompt M returns a preset whose
\* structured_prompt is M and whose prompt is the JSON serialization of M,
\* the backend stores M, and getPreset of a stored preset returns its
\* structured_prompt M with the prompt being the JSON serialization of M.
C24_PresetRoundTrip ==
    (Called /\ last.outcome = "resolved" /\ GotStatus(200)) =>
        /\ last.call.op = "createPreset" =>
               LET M == Get(sent.arg, "structured_prompt")
                   stored == backend.presets[Len(backend.presets)]
               IN  /\ Get(stored, "structured_prompt") = M
                   /\ Get(last.returned, "id") = Get(stored, "id")
                   /\ Get(last.returned, "structured_prompt") = M
                   /\ Get(last.returned, "prompt") = JStr(JSONstringify(M))
        /\ last.call.op = "getPreset" =>
               LET M == Get(backend.presets[last.arg.n], "structured_prompt")
               IN  /\ Get(last.returned, "id") = last.arg
                   /\ Get(last.returned, "structured_prompt") = M
                   /\ Get(last.returned, "prompt") = JStr(JSONstringify(M))

C24_Witness ==
    /\ Called /\ last.outcome = "resolved" /\ GotStatus(200)
    /\ last.call.op = "getPreset"
    /\ wire.calls = 2
    /\ wire.requests[1].method = "POST"
    /\ Get(last.returned, "structured_prompt")
           = wire.requests[1].body.value.p[Len(wire.requests[1].body.value.p)][2]
    /\ Get(last.returned, "prompt").t = "str"

\* C25: createPresetFromImage of an image without a structured prompt
\* throws the domain error and issues no request; otherwise it issues
\* exactly one createPreset request whose shot_type and structured_prompt
\* are those of the image.
C25_FromImageGuarded ==
    (Called /\ last.via = "createPresetFromImage") =>
        IF ~Truthy(Get(last.arg, "structured_prompt"))
        THEN /\ last.issued = 0
             /\ last.outcome = "rejected"
             /\ last.message = "Image does not have structured prompt data"
        ELSE /\ last.issued = 1
             /\ sent.request.method = "POST"
             /\ sent.request.url = "/presets"
             /\ Get(sent.request.body.value, "shot_type")
                    = Get(last.arg, "shot_type")
             /\ Get(sent.request.body.value, "structured_prompt")
                    = Get(last.arg, "structured_prompt")

C25_Witness ==
    /\ Called /\ last.via = "createPresetFromImage"
    /\ last.issued = 0
    /\ last.message = "Image does not have structured prompt data"
    /\ wire.calls = 1

C25_WitnessRequest ==
    /\ Called /\ last.via = "createPresetFromImage"
    /\ last.issued = 1
    /\ last.outcome = "resolved"

\* C26: a credential in storage is replaced or erased only by the
\* settlement of a logout, of a successful login or registration, or of a
\* request answered 401 that was sent carrying that same credential; a late
\* 401 for a request sent with another credential or with none leaves it.
C26_LateUnauthorizedKeepsNewerCredential ==
    ("sentWith" \in DOMAIN last /\ last.tokenBefore \in Tokens
     /\ token # last.tokenBefore) =>
        \/ last.call.op = "logout"
        \/ last.call.op \in AuthOps /\ last.outcome = "resolved"
        \/ GotStatus(401) /\ last.sentWith = last.tokenBefore

\* C27: the utility logout(redirectTo) never rejects: whether api.logout()
\* resolved or rejected, when it settles the stored credential is empty and
\* the last location assigned is redirectTo, so the catch branches of
\* Profile.handleLogout and AppSidebar.handleLogout are never entered.
C27_UtilityLogoutNeverRejects ==
    (Settled /\ last.call.flow = "util") =>
        /\ last.flowOutcome = "resolved"
        /\ ~isAuthenticated(token)
        /\ last.hrefs # << >>
        /\ last.hrefs[Len(last.hrefs)] = last.call.redirectTo

C27_Witness ==
    /\ Settled /\ last.call.flow = "util"
    /\ last.outcome = "rejected"
    /\ last.flowOutcome = "resolved"
    /\ last.tokenBefore \in Tokens
    /\ token = NoToken
    /\ last.hrefs = <<AuthPath, "/gallery">>

\* the input that ends its burst: no input of the same field follows it
\* within the wait
EndsBurst(i) ==
    \A j \in 1..Len(gallery.inputs) :
        (gallery.inputs[j].by = gallery.inputs[i].by
         /\ gallery.inputs[j].at > gallery.inputs[i].at)
            => gallery.inputs[j].at >= gallery.inputs[i].at + SearchDelay

\* C28: every getImages call made for a search input is made for the last
\* input of its burst, once, with that input's value, when the wait has
\* elapsed since that input; earlier inputs of the burst cause no call.
C28_SearchDebounced ==
    \A c \in 1..Len(gallery.calls) :
        gallery.calls[c].from # 0 =>
            LET i == gallery.calls[c].from
            IN  /\ EndsBurst(i)
                /\ gallery.calls[c].query = JStr(gallery.inputs[i].value)
                /\ gallery.calls[c].at = gallery.inputs[i].at + SearchDelay
                /\ \A d \in 1..Len(gallery.calls) :
                       gallery.calls[d].from = i => d = c

\* no request of op is in flight and no call of the page has failed
Quiet(op) ==
    /\ \A p \in gallery.pending : p.op # op
    /\ gallery.toast = ""

\* C29: once every getImages request has completed, the displayed list is
\* the result of the query issued last; once every getImage request has
\* completed, the detail panel shows the image selected last.
C29_LatestQueryAndSelectionShown ==
    /\ (Quiet("getImages") /\ gallery.calls # << >>) =>
           gallery.images =
               mapImages(SearchResults(
                   gallery.calls[Len(gallery.calls)].query)).value.a
    /\ (Quiet("getImage") /\ gallery.selectedImage # JNull) =>
           Get(gallery.imageDetails, "id") = Get(gallery.selectedImage, "id")

\* C30: a flow that has set its busy flag and awaits the client ends with
\* the flag cleared, whatever the outcome of the call; when a flow has just
\* settled its flag is clear, and when the stats of Profile failed the user
\* loaded before is still there.
C30_BusyFlagsCleared ==
    /\ \A f \in Flows : (busy.phase[f] # "idle") ~> (~busy.flag[f])
    /\ [](\A f \in Flows : busy.settled.flow = f => ~busy.flag[f])
    /\ [](busy.settled.outcome = "statsFailed" => busy.user = busy.loaded)

C30_Witness ==
    /\ busy.settled = [flow |-> "Profile.fetchUserData", outcome |-> "statsFailed"]
    /\ ~busy.flag["Profile.fetchUserData"]
    /\ busy.user = User
    /\ ~busy.flag["Gallery.fetchImages"]
    /\ token = NoToken

=============================================================================
